---- MODULE Spec2Model ----
(***************************************************************************)
(* Model of the layla-rpg manager classes (src/agents): InventoryManager,  *)
(* CharacterManager, ProgressionManager, WorldStateManager and DiceManager. *)
(* Every manager is a Python object holding dicts and lists; a dict is     *)
(* modelled as a function whose DOMAIN is the set of keys present, a list  *)
(* as a sequence.  One action models one whole method call.  The variables *)
(* call, ret and pre record the last call, what it returned or raised, and *)
(* the stores as they were when the call started.                          *)
(***************************************************************************)
EXTENDS Integers, Sequences, FiniteSets, TLC

VARIABLES characters, inventories, progression, state, event_log,
          call, ret, pre, rolls, history

vars == <<characters, inventories, progression, state, event_log,
          call, ret, pre, rolls, history>>

----------------------------------------------------------------------------
(* Bounds of the model *)

MaxItems == 3
MaxCalls == 4
MaxSides == 4
MaxSkill == 3

CharIds == {"a", "b", "c"}
Items == {"sword", "torch"}
Attrs == {"name", "hp"}
AttrVals == {"A", "B"}
CharacterData == UNION {[S -> AttrVals] : S \in SUBSET Attrs}
XpAmounts == {-5, 5}
Keys == {"weather", "door"}
Values == {"rain", "sun"}
Events == {<<"ambush">>, <<"weather", "rain">>}

DefaultSides == 20
DefaultDifficulty == 10
SidesArgs == (-2..MaxSides) \cup {DefaultSides}
SkillValues == -1..MaxSkill
Difficulties == {2, 4, DefaultDifficulty}

----------------------------------------------------------------------------
(* Python building blocks *)

EmptyDict == [k \in {} |-> {}]

Return(v) == [kind |-> "return", value |-> v]

Raise(e) == [kind |-> "raise", exc |-> e]

None == "None"

dict_get(d, k, default) == IF k \in DOMAIN d THEN d[k] ELSE default

dict_set(d, k, v) == [x \in (DOMAIN d) \cup {k} |-> IF x = k THEN v ELSE d[x]]

dict_setdefault(d, k, default) == IF k \in DOMAIN d THEN d ELSE dict_set(d, k, default)

list_contains(s, x) == \E i \in 1..Len(s) : s[i] = x

list_index(s, x) == CHOOSE i \in 1..Len(s) : s[i] = x /\ \A j \in 1..(i-1) : s[j] # x

list_remove(s, x) == SubSeq(s, 1, list_index(s, x) - 1) \o SubSeq(s, list_index(s, x) + 1, Len(s))

Stores == [characters |-> characters, inventories |-> inventories,
           progression |-> progression, state |-> state, event_log |-> event_log]

----------------------------------------------------------------------------
(* InventoryManager *)

add_item(inv, character_id, item) ==
    LET d == dict_setdefault(inv, character_id, <<>>)
    IN  [d EXCEPT ![character_id] = Append(@, item)]

remove_item(inv, character_id, item) ==
    LET d == dict_setdefault(inv, character_id, <<>>)
    IN  IF list_contains(d[character_id], item)
        THEN [d EXCEPT ![character_id] = list_remove(@, item)]
        ELSE d

transfer_item_unguarded(inv, from_id, to_id, item) ==
    add_item(remove_item(inv, from_id, item), to_id, item)

transfer_item_copy(inv, from_id, to_id, item) ==
    IF list_contains(dict_get(inv, from_id, <<>>), item)
    THEN add_item(inv, to_id, item)
    ELSE inv

transfer_item(inv, from_id, to_id, item) ==
    IF list_contains(dict_get(inv, from_id, <<>>), item)
    THEN add_item(remove_item(inv, from_id, item), to_id, item)
    ELSE inv

list_inventory(inv, character_id) == dict_get(inv, character_id, <<>>)

RECURSIVE TotalItems(_, _)
TotalItems(inv, ids) ==
    IF ids = {} THEN 0
    ELSE LET i == CHOOSE x \in ids : TRUE
         IN  Len(list_inventory(inv, i)) + TotalItems(inv, ids \ {i})

AddItem(character_id, item) ==
    /\ TotalItems(inventories, CharIds) < MaxItems
    /\ inventories' = add_item(inventories, character_id, item)
    /\ call' = [op |-> "add_item", character_id |-> character_id, item |-> item]
    /\ ret' = Return(None)
    /\ pre' = Stores
    /\ UNCHANGED <<characters, progression, state, event_log, rolls, history>>

RemoveItem(character_id, item) ==
    /\ inventories' = remove_item(inventories, character_id, item)
    /\ call' = [op |-> "remove_item", character_id |-> character_id, item |-> item]
    /\ ret' = Return(None)
    /\ pre' = Stores
    /\ UNCHANGED <<characters, progression, state, event_log, rolls, history>>

TransferItem(from_id, to_id, item) ==
    /\ inventories' = transfer_item(inventories, from_id, to_id, item)
    /\ call' = [op |-> "transfer_item", from_id |-> from_id, to_id |-> to_id, item |-> item]
    /\ ret' = Return(None)
    /\ pre' = Stores
    /\ UNCHANGED <<characters, progression, state, event_log, rolls, history>>

ListInventory(character_id) ==
    /\ call' = [op |-> "list_inventory", character_id |-> character_id]
    /\ ret' = Return(list_inventory(inventories, character_id))
    /\ pre' = Stores
    /\ UNCHANGED <<characters, inventories, progression, state, event_log, rolls, history>>

----------------------------------------------------------------------------
(* CharacterManager *)

dict_update(d, data) ==
    [x \in (DOMAIN d) \cup (DOMAIN data) |-> IF x \in DOMAIN data THEN data[x] ELSE d[x]]

add_character(chars, character_id, data) == dict_set(chars, character_id, data)

update_character_upsert(chars, character_id, data) ==
    dict_set(chars, character_id, dict_update(dict_get(chars, character_id, EmptyDict), data))

update_character(chars, character_id, data) ==
    IF character_id \in DOMAIN chars
    THEN [chars EXCEPT ![character_id] = dict_update(@, data)]
    ELSE chars

get_character(chars, character_id) == dict_get(chars, character_id, EmptyDict)

AddCharacter(character_id, data) ==
    /\ characters' = add_character(characters, character_id, data)
    /\ call' = [op |-> "add_character", character_id |-> character_id, data |-> data]
    /\ ret' = Return(None)
    /\ pre' = Stores
    /\ UNCHANGED <<inventories, progression, state, event_log, rolls, history>>

UpdateCharacter(character_id, data) ==
    /\ characters' = update_character(characters, character_id, data)
    /\ call' = [op |-> "update_character", character_id |-> character_id, data |-> data]
    /\ ret' = Return(None)
    /\ pre' = Stores
    /\ UNCHANGED <<inventories, progression, state, event_log, rolls, history>>

GetCharacter(character_id) ==
    /\ call' = [op |-> "get_character", character_id |-> character_id]
    /\ ret' = Return(get_character(characters, character_id))
    /\ pre' = Stores
    /\ UNCHANGED <<characters, inventories, progression, state, event_log, rolls, history>>

----------------------------------------------------------------------------
(* ProgressionManager *)

DefaultProgression == [xp |-> 0, level |-> 1]

add_xp_clamped(prog, character_id, xp) ==
    LET d == dict_setdefault(prog, character_id, DefaultProgression)
    IN  [d EXCEPT ![character_id].xp = IF @ + xp < 0 THEN 0 ELSE @ + xp]

add_xp(prog, character_id, xp) ==
    LET d == dict_setdefault(prog, character_id, DefaultProgression)
    IN  [d EXCEPT ![character_id].xp = @ + xp]

level_up(prog, character_id) ==
    LET d == dict_setdefault(prog, character_id, DefaultProgression)
    IN  [d EXCEPT ![character_id].level = @ + 1]

get_progression(prog, character_id) == dict_get(prog, character_id, DefaultProgression)

AddXp(character_id, xp) ==
    /\ Len(history) < MaxCalls
    /\ progression' = add_xp(progression, character_id, xp)
    /\ call' = [op |-> "add_xp", character_id |-> character_id, xp |-> xp]
    /\ ret' = Return(None)
    /\ pre' = Stores
    /\ history' = Append(history, call')
    /\ UNCHANGED <<characters, inventories, state, event_log, rolls>>

LevelUp(character_id) ==
    /\ Len(history) < MaxCalls
    /\ progression' = level_up(progression, character_id)
    /\ call' = [op |-> "level_up", character_id |-> character_id]
    /\ ret' = Return(None)
    /\ pre' = Stores
    /\ history' = Append(history, call')
    /\ UNCHANGED <<characters, inventories, state, event_log, rolls>>

GetProgression(character_id) ==
    /\ Len(history) < MaxCalls
    /\ call' = [op |-> "get_progression", character_id |-> character_id]
    /\ ret' = Return(get_progression(progression, character_id))
    /\ pre' = Stores
    /\ history' = Append(history, call')
    /\ UNCHANGED <<characters, inventories, progression, state, event_log, rolls>>

----------------------------------------------------------------------------
(* WorldStateManager: w is the pair of fields state and event_log *)

update_state_dedup(w, key, value) ==
    [state |-> dict_set(w.state, key, value),
     event_log |-> IF dict_get(w.state, key, None) = value
                   THEN w.event_log
                   ELSE Append(w.event_log, <<key, value>>)]

update_state(w, key, value) ==
    [state |-> dict_set(w.state, key, value),
     event_log |-> Append(w.event_log, <<key, value>>)]

get_state(w, key) == dict_get(w.state, key, None)

log_event_prepend(w, event) ==
    [state |-> w.state, event_log |-> <<event>> \o w.event_log]

log_event(w, event) ==
    [state |-> w.state, event_log |-> Append(w.event_log, event)]

get_event_log(w) == w.event_log

World == [state |-> state, event_log |-> event_log]

UpdateState(key, value) ==
    /\ Len(history) < MaxCalls
    /\ state' = update_state(World, key, value).state
    /\ event_log' = update_state(World, key, value).event_log
    /\ call' = [op |-> "update_state", key |-> key, value |-> value]
    /\ ret' = Return(None)
    /\ pre' = Stores
    /\ history' = Append(history, call')
    /\ UNCHANGED <<characters, inventories, progression, rolls>>

GetState(key) ==
    /\ Len(history) < MaxCalls
    /\ call' = [op |-> "get_state", key |-> key]
    /\ ret' = Return(get_state(World, key))
    /\ pre' = Stores
    /\ history' = Append(history, call')
    /\ UNCHANGED <<characters, inventories, progression, state, event_log, rolls>>

LogEvent(event) ==
    /\ Len(history) < MaxCalls
    /\ state' = log_event(World, event).state
    /\ event_log' = log_event(World, event).event_log
    /\ call' = [op |-> "log_event", event |-> event]
    /\ ret' = Return(None)
    /\ pre' = Stores
    /\ history' = Append(history, call')
    /\ UNCHANGED <<characters, inventories, progression, rolls>>

GetEventLog ==
    /\ Len(history) < MaxCalls
    /\ call' = [op |-> "get_event_log"]
    /\ ret' = Return(get_event_log(World))
    /\ pre' = Stores
    /\ history' = Append(history, call')
    /\ UNCHANGED <<characters, inventories, progression, state, event_log, rolls>>

----------------------------------------------------------------------------
(* DiceManager.  A call yields one of a set of runs: the outcomes of the   *)
(* roll_dice invocations it made, in order, and what it returned or raised *)

randint(a, b) ==
    IF a > b THEN {Raise("ValueError")} ELSE {Return(r) : r \in a..b}

roll_dice_zero_based(sides) == randint(0, sides)

roll_dice_scaled(sides) ==
    IF sides >= 1 THEN randint(1, sides) ELSE {Return(r) : r \in (sides + 1)..1}

roll_dice(sides) == randint(1, sides)

skill_check_strict(skill_value, difficulty, sides) ==
    {[rolls |-> <<o>>,
      out |-> IF o.kind = "raise" THEN o
              ELSE Return([roll |-> o.value, skill_value |-> skill_value,
                           difficulty |-> difficulty,
                           success |-> (o.value + skill_value) > difficulty])]
       : o \in roll_dice(sides)}

skill_check(skill_value, difficulty, sides) ==
    {[rolls |-> <<o>>,
      out |-> IF o.kind = "raise" THEN o
              ELSE Return([roll |-> o.value, skill_value |-> skill_value,
                           difficulty |-> difficulty,
                           success |-> (o.value + skill_value) >= difficulty])]
       : o \in roll_dice(sides)}

RollDice(sides) ==
    /\ \E o \in roll_dice(sides) :
         /\ rolls' = <<o>>
         /\ ret' = o
    /\ call' = [op |-> "roll_dice", sides |-> sides]
    /\ pre' = Stores
    /\ UNCHANGED <<characters, inventories, progression, state, event_log, history>>

SkillCheck(skill_value, difficulty, sides) ==
    /\ \E run \in skill_check(skill_value, difficulty, sides) :
         /\ rolls' = run.rolls
         /\ ret' = run.out
    /\ call' = [op |-> "skill_check", skill_value |-> skill_value,
                difficulty |-> difficulty, sides |-> sides]
    /\ pre' = Stores
    /\ UNCHANGED <<characters, inventories, progression, state, event_log, history>>

----------------------------------------------------------------------------
(* Construction and the specifications *)

Init ==
    /\ characters = EmptyDict
    /\ inventories = EmptyDict
    /\ progression = EmptyDict
    /\ state = EmptyDict
    /\ event_log = <<>>
    /\ call = [op |-> "__init__"]
    /\ ret = Return(None)
    /\ pre = [characters |-> EmptyDict, inventories |-> EmptyDict,
              progression |-> EmptyDict, state |-> EmptyDict, event_log |-> <<>>]
    /\ rolls = <<>>
    /\ history = <<>>

NextInventory ==
    \/ \E id \in CharIds, item \in Items : AddItem(id, item)
    \/ \E id \in CharIds, item \in Items : RemoveItem(id, item)
    \/ \E f \in CharIds, t \in CharIds, item \in Items : TransferItem(f, t, item)
    \/ \E id \in CharIds : ListInventory(id)

SpecInventory == Init /\ [][NextInventory]_vars

NextCharacter ==
    \/ \E id \in CharIds, data \in CharacterData : AddCharacter(id, data)
    \/ \E id \in CharIds, data \in CharacterData : UpdateCharacter(id, data)
    \/ \E id \in CharIds : GetCharacter(id)

SpecCharacter == Init /\ [][NextCharacter]_vars

NextProgression ==
    \/ \E id \in CharIds, xp \in XpAmounts : AddXp(id, xp)
    \/ \E id \in CharIds : LevelUp(id)
    \/ \E id \in CharIds : GetProgression(id)

SpecProgression == Init /\ [][NextProgression]_vars

NextWorld ==
    \/ \E key \in Keys, value \in Values : UpdateState(key, value)
    \/ \E key \in Keys : GetState(key)
    \/ \E event \in Events : LogEvent(event)
    \/ GetEventLog

SpecWorld == Init /\ [][NextWorld]_vars

NextDice ==
    \/ \E sides \in SidesArgs : RollDice(sides)
    \/ \E skill_value \in SkillValues, difficulty \in Difficulties, sides \in SidesArgs :
         SkillCheck(skill_value, difficulty, sides)

SpecDice == Init /\ [][NextDice]_vars

----------------------------------------------------------------------------
(* Claims about CharacterManager *)

(* C2: update_character on an id that was never added is a no-op: nothing  *)
(* is raised, no record is created, get_character(id) still returns the    *)
(* empty record, and every other stored record is unchanged.               *)
C2_UpdateMissingIsNoOp ==
    (call.op = "update_character" /\ call.character_id \notin DOMAIN pre.characters)
    => /\ ret.kind = "return"
       /\ call.character_id \notin DOMAIN characters
       /\ get_character(characters, call.character_id) = EmptyDict
       /\ \A id \in CharIds \ {call.character_id} :
            /\ id \in DOMAIN characters <=> id \in DOMAIN pre.characters
            /\ get_character(characters, id) = get_character(pre.characters, id)

C2_Witness ==
    /\ call.op = "update_character"
    /\ call.character_id \notin DOMAIN pre.characters
    /\ call.data # EmptyDict
    /\ pre.characters # EmptyDict

----------------------------------------------------------------------------
(* Claims about ProgressionManager *)

RECURSIVE SumXp(_, _)
SumXp(h, id) ==
    IF h = <<>> THEN 0
    ELSE SumXp(SubSeq(h, 1, Len(h) - 1), id)
         + (IF h[Len(h)].op = "add_xp" /\ h[Len(h)].character_id = id
            THEN h[Len(h)].xp ELSE 0)

RECURSIVE LevelUps(_, _)
LevelUps(h, id) ==
    IF h = <<>> THEN 0
    ELSE LevelUps(SubSeq(h, 1, Len(h) - 1), id)
         + (IF h[Len(h)].op = "level_up" /\ h[Len(h)].character_id = id
            THEN 1 ELSE 0)

(* C8: after any interleaving of add_xp, level_up and get_progression on a *)
(* fresh ProgressionManager, for every id the xp of get_progression(id) is *)
(* the sum of the amounts given to add_xp for id (no clamping) and its     *)
(* level is 1 plus the number of level_up calls for id; level_up leaves xp *)
(* alone, add_xp leaves level alone, and get_progression of an id without  *)
(* a record returns {xp: 0, level: 1} and creates no record.               *)
C8_ProgressionTotals ==
    /\ \A id \in CharIds :
         /\ get_progression(progression, id).xp = SumXp(history, id)
         /\ get_progression(progression, id).level = 1 + LevelUps(history, id)
    /\ call.op = "level_up"
       => \A id \in CharIds :
            get_progression(progression, id).xp = get_progression(pre.progression, id).xp
    /\ call.op = "add_xp"
       => \A id \in CharIds :
            get_progression(progression, id).level = get_progression(pre.progression, id).level
    /\ call.op = "get_progression"
       => /\ progression = pre.progression
          /\ call.character_id \notin DOMAIN pre.progression
             => /\ ret = Return([xp |-> 0, level |-> 1])
                /\ call.character_id \notin DOMAIN progression

C8_Witness ==
    /\ Len(history) = MaxCalls
    /\ \E id \in CharIds :
         /\ SumXp(history, id) < 0
         /\ LevelUps(history, id) >= 1
         /\ \E i \in 1..Len(history) :
              history[i].op = "get_progression" /\ history[i].character_id = id

C8_WitnessDefault ==
    /\ call.op = "get_progression"
    /\ call.character_id \notin DOMAIN pre.progression
    /\ pre.progression # EmptyDict

----------------------------------------------------------------------------
(* Claims about WorldStateManager *)

RECURSIVE Appended(_)
Appended(h) ==
    IF h = <<>> THEN <<>>
    ELSE LET c == h[Len(h)]
             before == Appended(SubSeq(h, 1, Len(h) - 1))
         IN  IF c.op = "update_state" THEN Append(before, <<c.key, c.value>>)
             ELSE IF c.op = "log_event" THEN Append(before, c.event)
             ELSE before

IsPrefix(s, t) == Len(s) <= Len(t) /\ SubSeq(t, 1, Len(s)) = s

(* C3: every update_state(key, value) sets get_state(key) to value and     *)
(* appends exactly the one entry (key, value) at the end of the event log, *)
(* so the log grows by exactly 1 per call, also when value is the value    *)
(* already stored for key (two identical consecutive updates grow it by 2).*)
C3_UpdateStateAppends ==
    call.op = "update_state"
    => /\ get_state(World, call.key) = call.value
       /\ event_log = Append(pre.event_log, <<call.key, call.value>>)
       /\ Len(event_log) = Len(pre.event_log) + 1
       /\ Len(event_log) = Len(Appended(history))
       /\ (Len(history) >= 2 /\ history[Len(history) - 1] = call)
          => /\ Len(event_log) = Len(Appended(SubSeq(history, 1, Len(history) - 2))) + 2
             /\ event_log[Len(event_log) - 1] = <<call.key, call.value>>

C3_Witness ==
    /\ call.op = "update_state"
    /\ Len(history) >= 3
    /\ history[Len(history) - 1] = call
    /\ call.key \in DOMAIN pre.state
    /\ pre.state[call.key] = call.value

(* C4: the event log is append-only: over update_state, get_state,         *)
(* log_event and get_event_log calls the log before a call is a prefix of  *)
(* the log after it (nothing removed, reordered or rewritten), and         *)
(* get_event_log returns the entries in the order they were appended.      *)
C4_LogAppendOnly ==
    [][/\ IsPrefix(event_log, event_log')
       /\ event_log' = Appended(history')
       /\ call'.op = "get_event_log" => ret' = Return(Appended(history'))]_vars

C4_Witness ==
    /\ call.op = "get_event_log"
    /\ Len(ret.value) = MaxCalls - 1
    /\ \E i \in 1..Len(ret.value) : ret.value[i] \in Events
    /\ \E i \in 2..Len(ret.value) : ret.value[i] \notin Events /\ ret.value[i - 1] # ret.value[i]

----------------------------------------------------------------------------
(* Claims about DiceManager *)

(* C5: for sides >= 1 every value roll_dice(sides) can return is an        *)
(* integer r with 1 <= r <= sides, and every integer of 1..sides is a      *)
(* possible return value (1..20 with the default sides).                   *)
C5_RollInRange ==
    (call.op = "roll_dice" /\ call.sides >= 1)
    => /\ ret.kind = "return"
       /\ ret.value \in 1..call.sides
       /\ \A r \in 1..call.sides : ENABLED (RollDice(call.sides) /\ ret' = Return(r))

C5_Witness ==
    /\ call.op = "roll_dice"
    /\ call.sides = DefaultSides
    /\ ret = Return(DefaultSides)

C5_WitnessLow ==
    /\ call.op = "roll_dice"
    /\ call.sides = 1
    /\ ret = Return(1)

(* C6: roll_dice with sides < 1 fails with an invalid-argument error       *)
(* (Python's ValueError) and never returns a roll; skill_check with        *)
(* sides < 1 fails the same way instead of returning a result.             *)
C6_NonPositiveSidesFails ==
    (call.op \in {"roll_dice", "skill_check"} /\ call.sides < 1)
    => /\ ret.kind = "raise"
       /\ ret.exc = "ValueError"

C6_Witness ==
    /\ call.op = "skill_check"
    /\ call.sides = 0
    /\ ret.kind = "raise"

C6_WitnessRoll ==
    /\ call.op = "roll_dice"
    /\ call.sides < 0
    /\ ret.kind = "raise"

(* C7: for sides >= 1 skill_check rolls exactly once and returns a record  *)
(* with the given skill_value and difficulty, the outcome of that roll,    *)
(* and success true exactly when roll + skill_value >= difficulty.         *)
C7_SkillCheckResult ==
    (call.op = "skill_check" /\ call.sides >= 1)
    => /\ Len(rolls) = 1
       /\ rolls[1].kind = "return"
       /\ rolls[1].value \in 1..call.sides
       /\ ret.kind = "return"
       /\ ret.value.roll = rolls[1].value
       /\ ret.value.skill_value = call.skill_value
       /\ ret.value.difficulty = call.difficulty
       /\ ret.value.success <=> (ret.value.roll + call.skill_value >= call.difficulty)
       /\ \A r \in 1..call.sides :
            ENABLED (SkillCheck(call.skill_value, call.difficulty, call.sides)
                       /\ rolls' = <<Return(r)>>)

C7_Witness ==
    /\ call.op = "skill_check"
    /\ call.sides >= 1
    /\ ret.kind = "return"
    /\ ret.value.success
    /\ ret.value.roll + call.skill_value = call.difficulty

C7_WitnessFail ==
    /\ call.op = "skill_check"
    /\ call.sides = DefaultSides
    /\ call.difficulty = DefaultDifficulty
    /\ ret.kind = "return"
    /\ ~ret.value.success
    /\ ret.value.roll + call.skill_value = call.difficulty - 1

----------------------------------------------------------------------------
(* Claims about InventoryManager *)

Count(s, x) == Cardinality({i \in 1..Len(s) : s[i] = x})

RECURSIVE TotalCount(_, _, _)
TotalCount(inv, ids, x) ==
    IF ids = {} THEN 0
    ELSE LET i == CHOOSE y \in ids : TRUE
         IN  Count(list_inventory(inv, i), x) + TotalCount(inv, ids \ {i}, x)

(* C1: transfer_item of an item that does not occur in from_id's list      *)
(* (also when from_id has no list) raises nothing and leaves every         *)
(* character's inventory as it was before the call.                        *)
C1_TransferAbsentIsNoOp ==
    (call.op = "transfer_item"
        /\ ~list_contains(list_inventory(pre.inventories, call.from_id), call.item))
    => /\ ret.kind = "return"
       /\ \A id \in CharIds :
            list_inventory(inventories, id) = list_inventory(pre.inventories, id)

C1_Witness ==
    /\ call.op = "transfer_item"
    /\ call.from_id # call.to_id
    /\ call.from_id \in DOMAIN pre.inventories
    /\ pre.inventories[call.from_id] # <<>>
    /\ ~list_contains(pre.inventories[call.from_id], call.item)
    /\ list_inventory(pre.inventories, call.to_id) # <<>>

C1_WitnessNoList ==
    /\ call.op = "transfer_item"
    /\ call.from_id \notin DOMAIN pre.inventories
    /\ pre.inventories # EmptyDict

RemoveAt(s, i) == [j \in 1..(Len(s) - 1) |-> IF j < i THEN s[j] ELSE s[j + 1]]

(* C9: remove_item removes exactly the first occurrence of item from id's  *)
(* list, keeping the order of the rest, when item is present; otherwise    *)
(* (item absent, or id without a list) it raises nothing and leaves the    *)
(* whole store unchanged, including which ids have an entry.               *)
C9_RemoveItemFrame ==
    call.op = "remove_item"
    => /\ ret.kind = "return"
       /\ IF list_contains(list_inventory(pre.inventories, call.character_id), call.item)
          THEN \E i \in 1..Len(pre.inventories[call.character_id]) :
                 /\ pre.inventories[call.character_id][i] = call.item
                 /\ \A j \in 1..(i - 1) : pre.inventories[call.character_id][j] # call.item
                 /\ inventories = [pre.inventories EXCEPT
                                     ![call.character_id] = RemoveAt(@, i)]
          ELSE /\ DOMAIN inventories = DOMAIN pre.inventories
               /\ inventories = pre.inventories

(* C10: transfer_item never changes the total number of occurrences of any *)
(* item over all inventories; with item present and from_id # to_id the    *)
(* count in from_id drops by one, to_id gets item appended last and no     *)
(* third inventory changes; with from_id = to_id the list keeps its        *)
(* multiset of items.                                                      *)
C10_TransferConserves ==
    call.op = "transfer_item"
    => LET p == pre.inventories
           f == call.from_id
           t == call.to_id
           present == list_contains(list_inventory(p, f), call.item)
       IN  /\ \A x \in Items :
                TotalCount(inventories, CharIds, x) = TotalCount(p, CharIds, x)
           /\ (present /\ f # t)
              => /\ Count(list_inventory(inventories, f), call.item)
                      = Count(list_inventory(p, f), call.item) - 1
                 /\ \A x \in Items \ {call.item} :
                      Count(list_inventory(inventories, f), x)
                        = Count(list_inventory(p, f), x)
                 /\ list_inventory(inventories, t)
                      = Append(list_inventory(p, t), call.item)
                 /\ \A o \in CharIds \ {f, t} :
                      list_inventory(inventories, o) = list_inventory(p, o)
           /\ (f = t)
              => \A x \in Items :
                   Count(list_inventory(inventories, f), x)
                     = Count(list_inventory(p, f), x)

C10_Witness ==
    /\ call.op = "transfer_item"
    /\ call.from_id # call.to_id
    /\ Count(list_inventory(pre.inventories, call.from_id), call.item) = 2
    /\ list_inventory(pre.inventories, call.to_id) # <<>>
    /\ inventories # pre.inventories

C10_WitnessSelf ==
    /\ call.op = "transfer_item"
    /\ call.from_id = call.to_id
    /\ inventories # pre.inventories

====
